---- MODULE Spec2Model ----
(***************************************************************************)
(* Model of repair.py: the read path (read_sheet_as_df, load_data and the  *)
(* merge at the top of main), the write path (save_repair) and the         *)
(* st.cache_data memo that sits between them.                              *)
(*                                                                         *)
(* A cell is a text: a sequence of tokens, the token " " being a           *)
(* whitespace character.  A timestamp text is the one-token text           *)
(* <<ToString(n)>> for the n-th second; every other text is one that       *)
(* pd.to_datetime cannot parse.  A sheet is the value of get_all_values(): *)
(* a sequence of rows, the first being the header row.                     *)
(***************************************************************************)
EXTENDS Integers, Sequences, FiniteSets, TLC

VARIABLES
    reportSheet,  \* worksheet REPORT_SHEET_NAME, as get_all_values() returns it
    repairSheet,  \* worksheet REPAIR_SHEET_NAME, as get_all_values() returns it
    pwdCell,      \* cell A1 of worksheet PASSWORD_SHEET_NAME
    clock,        \* the latest datetime.now(TZ) that was read, in seconds
    cache,        \* the memo of @st.cache_data load_data: NoCache or its result
    pc,           \* per session: where the script run of that session stands
    view,         \* per session: df_all of the run of main that is on screen
    authed,       \* per session: authed of the last run of main
    outcome,      \* per session: what the run shows of the last submit
    req,          \* per session: (case_id, status, note) passed to save_repair
    values,       \* per session: local values of save_repair
    ts,           \* per session: local ts of save_repair
    last,         \* per session: local last of save_repair
    submits,      \* per session: the forms submitted so far
    failed,       \* history, per session: the call of save_repair that raised
    partial       \* history: a call raised after a cell write, memo not yet dropped

vars == <<reportSheet, repairSheet, pwdCell, clock, cache, pc, view, authed,
          outcome, req, values, ts, last, submits, failed, partial>>

-----------------------------------------------------------------------------
(* Bounds of the model *)

MaxClock == 2
MaxSubmits == 2

-----------------------------------------------------------------------------
(* Values *)

NaT == 0
None == -1
NoCache == [kind |-> "none"]
NoFail == [kind |-> "none"]
Blank == << >>
T(tok) == <<tok>>

RECURSIVE lstrip(_)
lstrip(s) == IF s # << >> /\ Head(s) = " " THEN lstrip(Tail(s)) ELSE s

RECURSIVE rstrip(_)
rstrip(s) ==
    IF s # << >> /\ s[Len(s)] = " " THEN rstrip(SubSeq(s, 1, Len(s) - 1)) ELSE s

norm(x) == rstrip(lstrip(x))

\* strftime of the n-th second.
now_ts_full(n) == T(ToString(n))

MaxTs == MaxClock + 1

to_datetime(s) ==
    IF \E n \in 1..MaxTs : s = T(ToString(n))
    THEN CHOOSE n \in 1..MaxTs : s = T(ToString(n))
    ELSE NaT

\* "L<d>" stands for a locale-formatted text of day d, which pd.to_datetime
\* rejects and the regular expression of to_ymd accepts.
LocaleDay(s) ==
    IF \E d \in 1..MaxTs : s = T("L" \o ToString(d))
    THEN CHOOSE d \in 1..MaxTs : s = T("L" \o ToString(d))
    ELSE 0

\* The "%Y-%m-%d" text is represented by its day number and "" by 0: the
\* order of the texts is the order of the numbers.  One day is one second.
to_ymd(t) ==
    LET s == norm(t) IN
    IF s = Blank THEN 0
    ELSE IF to_datetime(s) # NaT THEN to_datetime(s)
    ELSE LocaleDay(s)


-----------------------------------------------------------------------------
(* Reading: read_sheet_as_df and load_data *)

ReportHeaders == {"timestamp", "location", "equipment", "description", "media", "case_id"}
RepairHeaders == {"timestamp", "case_id", "status", "note"}

\* idx_map of read_sheet_as_df: the first column of every non-blank header
\* name, as an index into the row (1-based here, 0-based in the source).
idx_map(header) ==
    [h \in {norm(header[i]) : i \in 1..Len(header)} \ {Blank} |->
        CHOOSE i \in 1..Len(header) :
            /\ norm(header[i]) = h
            /\ \A j \in 1..(i - 1) : norm(header[j]) # h]

read_sheet_as_df(vals, headers) ==
    IF vals = << >> THEN << >>
    ELSE LET m == idx_map(vals[1]) IN
         [k \in 1..(Len(vals) - 1) |->
            [h \in headers |->
                IF T(h) \in DOMAIN m /\ m[T(h)] <= Len(vals[k + 1])
                THEN vals[k + 1][m[T(h)]]
                ELSE Blank]]

load_data ==
    [kind   |-> "data",
     report |-> read_sheet_as_df(reportSheet, ReportHeaders),
     repair |-> read_sheet_as_df(repairSheet, RepairHeaders),
     pwd    |-> norm(pwdCell)]

-----------------------------------------------------------------------------
(* Merging: the first lines of main *)

Perms(n) == {p \in [1..n -> 1..n] : \A i, j \in 1..n : i # j => p[i] # p[j]}

Reorder(df, p) == [i \in 1..Len(df) |-> df[p[i]]]

\* The orders sort_values("_ts") can leave the rows in: the rows with a
\* timestamp ascending, rows with equal timestamps in any order (the default
\* kind, quicksort, is not stable), then the NaT rows in their old order.
SortByTsOrders(df) ==
    {p \in Perms(Len(df)) :
        \A a, b \in 1..Len(df) : a < b =>
            /\ (df[p[a]]._ts # NaT /\ df[p[b]]._ts # NaT
                    => df[p[a]]._ts <= df[p[b]]._ts)
            /\ (df[p[a]]._ts = NaT => df[p[b]]._ts = NaT /\ p[a] < p[b])}

\* sort_values("report_date", ascending=False), equal dates in any order.
SortByDateDescOrders(df) ==
    {p \in Perms(Len(df)) :
        \A a, b \in 1..Len(df) : a < b => df[p[a]].report_date >= df[p[b]].report_date}

tail1All(df) == df

\* groupby("case_id").tail(1): of every key the last row, order kept.
RECURSIVE tail1(_)
tail1(df) ==
    IF df = << >> THEN << >>
    ELSE IF \E b \in 2..Len(df) : df[b].case_id = df[1].case_id
         THEN tail1(Tail(df))
         ELSE <<df[1]>> \o tail1(Tail(df))

WithTs(df) ==
    [i \in 1..Len(df) |->
        [df[i] EXCEPT !.case_id = norm(df[i].case_id)] @@ [_ts |-> to_datetime(df[i].timestamp)]]

\* r after line 303 and w after line 309, for one outcome of the sort.
ReportLatest(sorted) ==
    LET t == tail1(sorted) IN
    [i \in 1..Len(t) |->
        [case_id     |-> t[i].case_id,
         report_time |-> t[i].timestamp,
         report_date |-> to_ymd(t[i].timestamp),
         location    |-> t[i].location,
         equipment   |-> t[i].equipment,
         description |-> t[i].description,
         media       |-> t[i].media]]

RepairLatest(sorted) ==
    LET t == tail1(sorted) IN
    [i \in 1..Len(t) |->
        [case_id     |-> t[i].case_id,
         update_time |-> t[i].timestamp,
         status      |-> t[i].status,
         note        |-> t[i].note]]

NoRepair == [update_time |-> Blank, status |-> Blank, note |-> Blank]

JoinRow(x, y) ==
    x @@ [update_time |-> y.update_time, status |-> y.status, note |-> y.note]

\* r.merge(w, on="case_id", how="left").fillna("")
RECURSIVE merge(_, _)
merge(r, w) ==
    IF r = << >> THEN << >>
    ELSE LET ms == SelectSeq(w, LAMBDA y : y.case_id = r[1].case_id) IN
         (IF ms = << >> THEN <<JoinRow(r[1], NoRepair)>>
          ELSE [i \in 1..Len(ms) |-> JoinRow(r[1], ms[i])])
         \o merge(Tail(r), w)

\* Every df_all that lines 298-316 can compute from the result of load_data.
MergedViews(data) ==
    LET r0 == WithTs(data.report)
        w0 == WithTs(data.repair)
    IN UNION UNION
       {{ LET m == merge(ReportLatest(Reorder(r0, p)), RepairLatest(Reorder(w0, q)))
          IN {Reorder(m, o) : o \in SortByDateDescOrders(m)}
          : q \in SortByTsOrders(w0)} : p \in SortByTsOrders(r0)}

-----------------------------------------------------------------------------
(* Writing: save_repair *)

\* col(name) of save_repair: the 0-based index of the first header cell whose
\* trimmed text is the name, or None.
col(header, name) ==
    IF \E i \in 1..Len(header) : norm(header[i]) = T(name)
    THEN (CHOOSE i \in 1..Len(header) :
            /\ norm(header[i]) = T(name)
            /\ \A j \in 1..(i - 1) : norm(header[j]) # T(name)) - 1
    ELSE None

c_ts(header) == col(header, "timestamp")
c_case(header) == col(header, "case_id")
c_stat(header) == col(header, "status")
c_note(header) == col(header, "note")

\* None in (c_ts, c_case, c_stat, c_note)
MissingColumnAll(header) ==
    /\ c_ts(header) = None
    /\ c_case(header) = None
    /\ c_stat(header) = None
    /\ c_note(header) = None

MissingColumn(header) ==
    \/ c_ts(header) = None
    \/ c_case(header) = None
    \/ c_stat(header) = None
    \/ c_note(header) = None

\* The 1-based sheet row of values[i].
SheetRowOffByOne(i) == i

SheetRow(i) == i + 1

\* The indices i of range(1, len(values)) that the loop of lines 186-189
\* matches; values[i] of the source is vals[i + 1] here.
Hits(vals, case_id) ==
    LET c == c_case(vals[1]) IN
    {i \in 1..(Len(vals) - 1) :
        /\ c < Len(vals[i + 1])
        /\ norm(vals[i + 1][c + 1]) = case_id}

Max(S) == CHOOSE x \in S : \A y \in S : y <= x
Min(S) == CHOOSE x \in S : \A y \in S : x <= y

FindFirst(vals, case_id) ==
    IF Hits(vals, case_id) = {} THEN None ELSE SheetRow(Min(Hits(vals, case_id)))

FindNone(vals, case_id) == None

\* last after the loop of lines 185-189.
FindLast(vals, case_id) ==
    IF Hits(vals, case_id) = {} THEN None ELSE SheetRow(Max(Hits(vals, case_id)))

\* ws.update_cell(row, column, value), both 1-based.
update_cell(sheet, row, column, value) ==
    [sheet EXCEPT ![row] = [@ EXCEPT ![column] = value]]

\* The row of lines 196-200.
NewRow(header, t, r) ==
    LET ct == c_ts(header)
        cc == c_case(header)
        cs == c_stat(header)
        cn == c_note(header)
    IN [i \in 1..Len(header) |->
            IF i = cn + 1 THEN r.note
            ELSE IF i = cs + 1 THEN r.status
            ELSE IF i = cc + 1 THEN r.case_id
            ELSE IF i = ct + 1 THEN t
            ELSE Blank]

-----------------------------------------------------------------------------
(* Sessions and what they can enter *)

Sessions == {1, 2}
Options == {Blank, T("done")}
Notes == {T("fixed")}
Passwords == {Blank, T("pw")}

NoReq == [case_id |-> Blank, status |-> Blank, note |-> Blank]

Writing == {"read", "upd_ts", "upd_stat", "upd_note", "append"}

\* The cell writes a call at this point has made.
Wrote(p) == IF p = "upd_stat" THEN 1 ELSE IF p = "upd_note" THEN 2 ELSE 0

-----------------------------------------------------------------------------
(* Initial states *)

ReportHeader == <<T("timestamp"), T("location"), <<" ", "case_id">>>>

ReportA == <<T("1"), T("lab"), T("A")>>
ReportAw == <<Blank, T("hall"), <<" ", "A">>>>
ReportBlank == <<T("L1"), T("gym"), Blank>>

ReportSheets ==
    {<<ReportHeader>> \o rs :
        rs \in {<< >>, <<ReportA>>, <<ReportAw, ReportA>>, <<ReportA, ReportBlank>>}}

RepairHeader == <<T("timestamp"), T("case_id"), T("status"), T("note")>>
RepairHeaderLoose ==
    <<Blank, T("case_id"), <<"timestamp", " ">>, T("status"), T("timestamp"), T("note")>>
RepairHeaderNoNote == <<T("timestamp"), T("case_id"), T("status")>>

RepairNaT == [timestamp |-> Blank, case_id |-> T("A"), status |-> T("done"), note |-> T("old")]
RepairA == [timestamp |-> T("1"), case_id |-> <<"A", " ">>, status |-> T("odd"), note |-> Blank]
RepairLate == [timestamp |-> T(ToString(MaxTs)), case_id |-> T("A"), status |-> T("odd"), note |-> Blank]
RepairZ == [timestamp |-> T("1"), case_id |-> T("Z"), status |-> T("done"), note |-> Blank]

\* The sheet row that holds a record under a header; a column whose name is
\* none of the four holds an unrelated cell.
Lay(header, rec) ==
    [i \in 1..Len(header) |->
        IF norm(header[i]) = T("timestamp") THEN rec.timestamp
        ELSE IF norm(header[i]) = T("case_id") THEN rec.case_id
        ELSE IF norm(header[i]) = T("status") THEN rec.status
        ELSE IF norm(header[i]) = T("note") THEN rec.note
        ELSE T("x")]

Sheet(h, rs) == <<h>> \o [k \in 1..Len(rs) |-> Lay(h, rs[k])]

RepairSheets ==
    {<< >>}
    \cup {Sheet(RepairHeader, rs) :
            rs \in {<< >>, <<RepairNaT, RepairA>>, <<RepairLate, RepairA>>, <<RepairA, RepairZ>>}}
    \cup {Sheet(RepairHeaderLoose, rs) : rs \in {<< >>, <<RepairA, RepairNaT>>}}
    \cup {Sheet(RepairHeaderNoNote, rs) : rs \in {<< >>, <<RepairA>>}}

InitStore ==
    /\ reportSheet \in ReportSheets
    /\ repairSheet \in RepairSheets
    /\ pwdCell = <<"pw", " ">>
    /\ clock = 1

InitSessions(on) ==
    /\ cache = NoCache
    /\ pc = [s \in Sessions |-> IF s \in on THEN "run" ELSE "off"]
    /\ view = [s \in Sessions |-> << >>]
    /\ authed = [s \in Sessions |-> FALSE]
    /\ outcome = [s \in Sessions |-> "none"]
    /\ req = [s \in Sessions |-> NoReq]
    /\ values = [s \in Sessions |-> << >>]
    /\ ts = [s \in Sessions |-> Blank]
    /\ last = [s \in Sessions |-> None]
    /\ submits = [s \in Sessions |-> 0]
    /\ failed = [s \in Sessions |-> NoFail]
    /\ partial = FALSE

Init == InitStore /\ InitSessions({1})

-----------------------------------------------------------------------------
(* Actions *)

store == <<reportSheet, repairSheet, pwdCell>>
locals == <<values, ts, last>>
session == <<pc, view, authed, outcome, req, submits>>

Runnable == {"run", "form", "error"}

\* A script run of main up to the forms, on the result data of load_data:
\* the merge and the login.
Main(s, data) ==
    /\ pc[s] \in Runnable
    /\ \E v \in MergedViews(data) : view' = [view EXCEPT ![s] = v]
    /\ \E typed \in Passwords :
          authed' = [authed EXCEPT ![s] = (data.pwd = Blank \/ typed = data.pwd)]
    /\ pc' = [pc EXCEPT ![s] = "form"]
    /\ outcome' = [outcome EXCEPT ![s] = "none"]
    /\ req' = [req EXCEPT ![s] = NoReq]
    /\ UNCHANGED <<store, clock, locals, submits, failed>>

\* load_data is answered from the memo, inside its ttl.
RunCached(s) ==
    /\ cache # NoCache
    /\ Main(s, cache)
    /\ UNCHANGED <<cache, partial>>

\* load_data runs: the memo is empty or its ttl has run out.
RunLoad(s) ==
    /\ Main(s, load_data)
    /\ cache' = load_data
    /\ partial' = FALSE

\* load_data raises on a memo miss: the run ends with no view.
LoadError(s) ==
    /\ pc[s] \in Runnable
    /\ cache = NoCache
    /\ pc' = [pc EXCEPT ![s] = "error"]
    /\ view' = [view EXCEPT ![s] = << >>]
    /\ authed' = [authed EXCEPT ![s] = FALSE]
    /\ outcome' = [outcome EXCEPT ![s] = "none"]
    /\ req' = [req EXCEPT ![s] = NoReq]
    /\ UNCHANGED <<store, clock, cache, locals, submits, failed, partial>>

\* The form of one listed row is submitted (lines 448, 473-482).
Submit(s) ==
    /\ pc[s] = "form"
    /\ authed[s]
    /\ submits[s] < MaxSubmits
    /\ submits' = [submits EXCEPT ![s] = @ + 1]
    /\ \E i \in 1..Len(view[s]), st \in Options, nt \in Notes :
          LET r == [case_id |-> norm(view[s][i].case_id), status |-> st, note |-> nt] IN
          /\ req' = [req EXCEPT ![s] = r]
          /\ failed' = [failed EXCEPT ![s] = IF @ # NoFail /\ @.req = r THEN @ ELSE NoFail]
    /\ pc' = [pc EXCEPT ![s] = "read"]
    /\ outcome' = [outcome EXCEPT ![s] = "none"]
    /\ view' = [view EXCEPT ![s] = << >>]
    /\ UNCHANGED <<store, clock, cache, authed, locals, partial>>

\* An exception leaves save_repair and ends the run: nothing clears the memo.
Raise(s, exception) ==
    /\ pc' = [pc EXCEPT ![s] = "error"]
    /\ outcome' = [outcome EXCEPT ![s] = exception]
    /\ failed' = [failed EXCEPT ![s] =
          IF @ # NoFail \/ Wrote(pc[s]) = 0
          THEN @
          ELSE [kind |-> "fail", req |-> req[s], nrows |-> Len(repairSheet),
                row |-> last[s], wrote |-> Wrote(pc[s])]]
    /\ partial' = (partial \/ (Wrote(pc[s]) > 0 /\ cache # NoCache))
    /\ values' = [values EXCEPT ![s] = << >>]
    /\ ts' = [ts EXCEPT ![s] = Blank]
    /\ last' = [last EXCEPT ![s] = None]

\* Lines 166-189.
SaveRead(s) ==
    /\ pc[s] = "read"
    /\ IF repairSheet = << >> \/ MissingColumn(repairSheet[1])
       THEN Raise(s, "RuntimeError") /\ UNCHANGED clock
       ELSE /\ values' = [values EXCEPT ![s] = repairSheet]
            /\ \E now \in clock..MaxClock :
                  /\ clock' = now
                  /\ ts' = [ts EXCEPT ![s] = now_ts_full(now)]
            /\ last' = [last EXCEPT ![s] = FindLast(repairSheet, req[s].case_id)]
            /\ pc' = [pc EXCEPT ![s] =
                  IF FindLast(repairSheet, req[s].case_id) # None THEN "upd_ts" ELSE "append"]
            /\ UNCHANGED <<outcome, failed, partial>>
    /\ UNCHANGED <<store, cache, view, authed, req, submits>>

\* One of lines 192-194: column c of row last gets value v.
UpdateStep(s, at, c, v, next) ==
    /\ pc[s] = at
    /\ IF c = None
       THEN Raise(s, "TypeError") /\ UNCHANGED repairSheet
       ELSE /\ repairSheet' = update_cell(repairSheet, last[s], c + 1, v)
            /\ pc' = [pc EXCEPT ![s] = next]
            /\ UNCHANGED <<outcome, failed, partial, locals>>
    /\ UNCHANGED <<reportSheet, pwdCell, clock, cache, view, authed, req, submits>>

UpdTs(s) == UpdateStep(s, "upd_ts", c_ts(values[s][1]), ts[s], "upd_stat")
UpdStat(s) == UpdateStep(s, "upd_stat", c_stat(values[s][1]), req[s].status, "upd_note")
UpdNote(s) == UpdateStep(s, "upd_note", c_note(values[s][1]), req[s].note, "saved")

\* Lines 196-201.
AppendRow(s) ==
    /\ pc[s] = "append"
    /\ IF MissingColumn(values[s][1])
       THEN Raise(s, "TypeError") /\ UNCHANGED repairSheet
       ELSE /\ repairSheet' = Append(repairSheet, NewRow(values[s][1], ts[s], req[s]))
            /\ pc' = [pc EXCEPT ![s] = "saved"]
            /\ UNCHANGED <<outcome, failed, partial, locals>>
    /\ UNCHANGED <<reportSheet, pwdCell, clock, cache, view, authed, req, submits>>

\* A call to the spreadsheet service raises before it takes effect.
TransportError(s) ==
    /\ pc[s] \in Writing
    /\ Raise(s, "APIError")
    /\ UNCHANGED <<store, clock, cache, view, authed, req, submits>>

KeptCache == cache

ClearedCache == NoCache

\* Lines 483-485: st.success, st.cache_data.clear(), st.rerun().
Clear(s) ==
    /\ pc[s] = "saved"
    /\ cache' = ClearedCache
    /\ partial' = (cache' # NoCache /\ partial)
    /\ pc' = [pc EXCEPT ![s] = "run"]
    /\ outcome' = [outcome EXCEPT ![s] = "saved"]
    /\ failed' = [failed EXCEPT ![s] = NoFail]
    /\ values' = [values EXCEPT ![s] = << >>]
    /\ ts' = [ts EXCEPT ![s] = Blank]
    /\ last' = [last EXCEPT ![s] = None]
    /\ UNCHANGED <<store, clock, view, authed, req, submits>>

Next ==
    \E s \in Sessions :
          \/ RunCached(s)
          \/ RunLoad(s)
          \/ LoadError(s)
          \/ Submit(s)
          \/ SaveRead(s)
          \/ UpdTs(s)
          \/ UpdStat(s)
          \/ UpdNote(s)
          \/ AppendRow(s)
          \/ TransportError(s)
          \/ Clear(s)

Spec == Init /\ [][Next]_vars

\* One session, the status log holding no data row.
InitEmpty == Init /\ Len(repairSheet) = 1

SpecEmpty == InitEmpty /\ [][Next]_vars

\* Two sessions of the one process, one case, the status log holding no data row.
InitRace ==
    /\ reportSheet = <<ReportHeader, ReportA>>
    /\ repairSheet = <<RepairHeader>>
    /\ pwdCell = Blank
    /\ clock = 1
    /\ InitSessions({1, 2})

\* The steps of runs in which no call to the spreadsheet service raises.
NextNoError ==
    \E s \in Sessions :
          \/ RunCached(s)
          \/ RunLoad(s)
          \/ Submit(s)
          \/ SaveRead(s)
          \/ UpdTs(s)
          \/ UpdStat(s)
          \/ UpdNote(s)
          \/ AppendRow(s)
          \/ Clear(s)

SpecRace == InitRace /\ [][NextNoError]_vars

-----------------------------------------------------------------------------
(* What the properties speak of *)

Idle(s) == pc[s] \notin (Writing \cup {"saved"})

\* The cell of a 1-based sheet row under the first column of that name.
CellAt(sheet, row, name) == sheet[row][col(sheet[1], name) + 1]

\* The 1-based sheet row of the last data row whose trimmed case id is k.
LastPhysical(sheet, k) == Max(Hits(sheet, k)) + 1

AllKeys(sheet) ==
    LET c == col(sheet[1], "case_id") IN {norm(sheet[r][c + 1]) : r \in 2..Len(sheet)}

CaseIds(df) == {norm(df[i].case_id) : i \in 1..Len(df)}

RowsOf(df, k) == {j \in 1..Len(df) : norm(df[j].case_id) = k}

StatusOf(x) == [update_time |-> x.update_time, status |-> x.status, note |-> x.note]

AsStatus(y) == [update_time |-> y.timestamp, status |-> y.status, note |-> y.note]

\* A header row in which one of the four names is the trimmed text of no cell.
LacksColumn(header) ==
    \E name \in RepairHeaders : \A i \in 1..Len(header) : norm(header[i]) # T(name)

Shows(v, r) == \E i \in 1..Len(v) : v[i].case_id = r.case_id /\ v[i].status = r.status

-----------------------------------------------------------------------------
(* C1 *)

\* C1: starting from a status log with no data row, every case id has at most
\* one row in the log, and when an upsert for k has returned, k has exactly
\* one row and its status cell is the status of that upsert.
C1_UpsertRoundTrip ==
    /\ \A k \in AllKeys(repairSheet) : Cardinality(Hits(repairSheet, k)) = 1
    /\ \A s \in Sessions : pc[s] = "saved" =>
          /\ Cardinality(Hits(repairSheet, req[s].case_id)) = 1
          /\ CellAt(repairSheet, LastPhysical(repairSheet, req[s].case_id), "status")
                = req[s].status

\* A second upsert for the same case id has returned after updating the row
\* the first one appended, to another status.
C1_SecondUpsertUpdated ==
    \E s \in Sessions :
        /\ pc[s] = "saved"
        /\ submits[s] = 2
        /\ last[s] = 2
        /\ Len(repairSheet) = 2
        /\ CellAt(values[s], 2, "status") # req[s].status
        /\ CellAt(repairSheet, 2, "status") = req[s].status

-----------------------------------------------------------------------------
(* C2 *)

\* C2: when an upsert has returned and the memo is cleared, the memo is empty
\* and every view the rerun can compute from the store shows the status of
\* that upsert for its case id.
C2_NextLoadShowsWrite ==
    \A s \in Sessions : pc[s] = "run" /\ outcome[s] = "saved" =>
        /\ cache = NoCache
        /\ \A v \in MergedViews(load_data) : Shows(v, req[s])

-----------------------------------------------------------------------------
(* C3 *)

\* C3: the case ids of a view on screen are exactly the trimmed case ids of
\* the case log, none twice, and the status fields of a record are those of a
\* status row of the same case id, or blank when there is none.
C3_JoinComplete ==
    \A s \in Sessions : pc[s] = "form" =>
        /\ {view[s][i].case_id : i \in 1..Len(view[s])}
              = CaseIds(read_sheet_as_df(reportSheet, ReportHeaders))
        /\ \A i, j \in 1..Len(view[s]) : i # j => view[s][i].case_id # view[s][j].case_id
        /\ \A i \in 1..Len(view[s]) :
              LET rows == RowsOf(cache.repair, view[s][i].case_id) IN
              IF rows = {} THEN StatusOf(view[s][i]) = NoRepair
              ELSE \E j \in rows : StatusOf(view[s][i]) = AsStatus(cache.repair[j])

\* A view of one record for a case that has two rows in the case log, joined
\* to its status row, while the status log also holds a row of no case.
C3_DuplicatesAndOrphan ==
    \E s \in Sessions :
        /\ pc[s] = "form"
        /\ Len(view[s]) = 1
        /\ Len(reportSheet) = 3
        /\ view[s][1].status = T("odd")
        /\ RowsOf(cache.repair, T("Z")) # {}

-----------------------------------------------------------------------------
(* C4 *)

\* C4: every record of a view on screen carries the fields of the last
\* physical row of its case id, in the case log and in the status log.
C4_LatestByAppendOrder ==
    \A s \in Sessions : pc[s] = "form" =>
        \A i \in 1..Len(view[s]) :
            LET k == view[s][i].case_id
                cases == RowsOf(cache.report, k)
                events == RowsOf(cache.repair, k)
            IN /\ view[s][i].report_time = cache.report[Max(cases)].timestamp
               /\ events # {} => StatusOf(view[s][i]) = AsStatus(cache.repair[Max(events)])

-----------------------------------------------------------------------------
(* C5 *)

\* C5: while the header of the status log lacks one of the four columns, no
\* step changes the status log or empties the memo, no call of save_repair
\* gets past its check, and a call that reads the log ends in its RuntimeError.
C5_SchemaErrorWritesNothing ==
    [][(repairSheet # << >> /\ LacksColumn(repairSheet[1])) =>
          /\ repairSheet' = repairSheet
          /\ (cache # NoCache => cache' # NoCache)
          /\ \A s \in Sessions :
                /\ pc'[s] \notin {"upd_ts", "upd_stat", "upd_note", "append", "saved"}
                /\ (pc[s] = "read" /\ pc'[s] # "read" /\ outcome'[s] # "APIError")
                      => (pc'[s] = "error" /\ outcome'[s] = "RuntimeError")]_vars

\* A call of save_repair has raised its RuntimeError on a header without the
\* note column, with the memo filled.
C5_SchemaErrorRaised ==
    \E s \in Sessions :
        /\ pc[s] = "error"
        /\ outcome[s] = "RuntimeError"
        /\ repairSheet # << >>
        /\ LacksColumn(repairSheet[1])
        /\ Len(repairSheet) > 1
        /\ cache # NoCache

-----------------------------------------------------------------------------
(* C6 *)

\* C6: when the upsert that returns repeats one that raised after one or two
\* of its cell writes, it has updated the row the failed call was writing,
\* the log has as many rows as at the failure, and that row, the last of the
\* case id, holds the status and the note of the upsert.
C6_RetryCompletes ==
    \A s \in Sessions : (pc[s] = "saved" /\ failed[s] # NoFail /\ failed[s].req = req[s]) =>
        /\ Len(repairSheet) = failed[s].nrows
        /\ last[s] = failed[s].row
        /\ failed[s].row = LastPhysical(repairSheet, req[s].case_id)
        /\ CellAt(repairSheet, failed[s].row, "status") = req[s].status
        /\ CellAt(repairSheet, failed[s].row, "note") = req[s].note
        /\ CellAt(repairSheet, failed[s].row, "timestamp") = ts[s]

\* An upsert has returned that repeats one which raised after its first cell
\* write and before its second.
C6_RetryAfterOneWrite ==
    \E s \in Sessions :
        /\ pc[s] = "saved"
        /\ failed[s] # NoFail
        /\ failed[s].req = req[s]
        /\ failed[s].wrote = 1

-----------------------------------------------------------------------------
(* C7 *)

\* C7: no record of a view on screen has a blank case id, and no call of
\* save_repair is for a blank case id.
C7_BlankKeysDropped ==
    \A s \in Sessions :
        /\ pc[s] = "form" => \A i \in 1..Len(view[s]) : view[s][i].case_id # Blank
        /\ pc[s] \in Writing => req[s].case_id # Blank

-----------------------------------------------------------------------------
(* C8 *)

\* C8: when an upsert that found a row has returned, the row it wrote is the
\* last row of the case id in the log it read, the log has as many rows as
\* it read, and every cell is the cell it read, except the timestamp, status
\* and note cells of that row, which hold its timestamp, status and note.
C8_UpdateTouchesLastRowOnly ==
    \A s \in Sessions : (pc[s] = "saved" /\ last[s] # None) =>
        LET h == values[s][1] IN
        /\ last[s] = LastPhysical(values[s], req[s].case_id)
        /\ Len(repairSheet) = Len(values[s])
        /\ \A r \in 1..Len(repairSheet) :
              /\ Len(repairSheet[r]) = Len(values[s][r])
              /\ \A c \in 1..Len(repairSheet[r]) :
                    repairSheet[r][c] =
                        IF r = last[s] /\ c = c_ts(h) + 1 THEN ts[s]
                        ELSE IF r = last[s] /\ c = c_stat(h) + 1 THEN req[s].status
                        ELSE IF r = last[s] /\ c = c_note(h) + 1 THEN req[s].note
                        ELSE values[s][r][c]

\* An upsert has returned after updating the second of two rows of its case
\* id, under a header with a blank column and two timestamp columns.
C8_UpdatedSecondOfTwo ==
    \E s \in Sessions :
        /\ pc[s] = "saved"
        /\ last[s] = 3
        /\ values[s][1] = RepairHeaderLoose
        /\ Cardinality(Hits(values[s], req[s].case_id)) = 2
        /\ CellAt(values[s], 3, "status") # req[s].status

-----------------------------------------------------------------------------
(* C9 *)

\* C9: with the sessions of one process racing from a status log with no data
\* row, a session appends only when the log it read held no row of its case
\* id, whatever the log holds by then, and a case id never gets more rows
\* than there are sessions.
C9_AppendsFromStaleSnapshot ==
    /\ \A s \in Sessions : pc[s] = "append" => Hits(values[s], req[s].case_id) = {}
    /\ \A k \in AllKeys(repairSheet) :
          Cardinality(Hits(repairSheet, k)) <= Cardinality({s \in Sessions : pc[s] # "off"})

\* Both sessions appended a row for the one case id, and then both updated the
\* second of them: the row holds the timestamp of one and the status of the
\* other.
C9_TwoRowsAndMixedRow ==
    /\ Cardinality(Hits(repairSheet, T("A"))) = 2
    /\ pc[1] = "saved" /\ pc[2] = "saved"
    /\ last[1] = 3 /\ last[2] = 3
    /\ ts[1] # ts[2]
    /\ req[1].status # req[2].status
    /\ CellAt(repairSheet, 3, "timestamp") = ts[1]
    /\ CellAt(repairSheet, 3, "status") = req[2].status

-----------------------------------------------------------------------------
(* C10 *)

\* C10: while no upsert is in progress, the views that can be computed from
\* the memo are the views that can be computed from the store.
C10_CacheCoherent ==
    ((\A s \in Sessions : Idle(s)) /\ cache # NoCache) =>
        MergedViews(cache) = MergedViews(load_data)

\* C10, amended: the same, unless a call of save_repair has raised after a
\* cell write since the memo was filled.
C10_CacheCoherentUnlessPartialWrite ==
    ((\A s \in Sessions : Idle(s)) /\ cache # NoCache /\ ~partial) =>
        MergedViews(cache) = MergedViews(load_data)

\* A view is on screen from a memo that holds a row an upsert completed, after
\* two submits.
C10_ReloadedAfterUpsert ==
    \E s \in Sessions :
        /\ pc[s] = "form"
        /\ submits[s] = 2
        /\ ~partial
        /\ cache # NoCache
        /\ \E j \in 1..Len(cache.repair) : cache.repair[j].note = T("fixed")

=============================================================================
